---------------------------- MODULE Spec2Model ----------------------------
(***************************************************************************)
(* A model of the Plazen Telegram bot (plazen/telegram): the task-creation *)
(* handlers of src/handlers.py and src/main.py, the task store accessors   *)
(* of src/db.py and the title codec and parsers of src/utils.py.           *)
(*                                                                         *)
(* The repository holds two revisions of the bot.  src/main.py is the      *)
(* earlier, self-contained one: its handler takes no lock, requires a time *)
(* clause and writes the task table itself, and its dispatcher (built with *)
(* the defaults, main.py line 471) runs one handler at a time.  The later  *)
(* one is src/handlers.py with src/db.py, src/utils.py and src/jobs.py,    *)
(* whose handler serializes itself with a lock and so may run              *)
(* concurrently.  The tables outlive the bot: the model starts with the    *)
(* earlier revision and an empty task table, and may upgrade.              *)
(*                                                                         *)
(* Conventions.                                                            *)
(*  - A string of the program is a sequence of one-character strings.      *)
(*  - A datetime is an integer number of seconds of wall-clock time since  *)
(*    midnight of day 0; the sub-second part of datetime.now() is folded   *)
(*    into the seconds.  A naive datetime and an aware one under the       *)
(*    user's offset denote the same number (replace(tzinfo=...) keeps the  *)
(*    wall clock).                                                         *)
(*  - An absent string (None) is the empty sequence where the code tests   *)
(*    it with "not s", which treats the two alike.                         *)
(***************************************************************************)
EXTENDS Integers, Sequences, FiniteSets, TLC

VARIABLES
    revision,   \* the revision of the bot that runs: "main" or "handlers"
    clock,      \* the UTC time, in seconds
    profiles,   \* table UserSettings: chat id -> row, or NoRow
    tasks,      \* table tasks: the set of rows
    req,        \* handler invocation -> its position and local variables
    locks,      \* context.user_data[...]["task_lock"]: user -> holder
    calls,      \* the codec calls made so far, or the parser call or the
                \* line of the handler's log made last
    job,        \* the reminder loop: its position, wake-up time and history
    sent        \* the reminders sent

vars == <<revision, clock, profiles, tasks, req, locks, calls, job, sent>>

---------------------------------------------------------------------------
(* Bounds of the model. *)

\* how many distinct values the random source hands out
NumNonces == 2
\* how many codec calls one behaviour makes
MaxCalls == 3
\* how many rows the task table holds at most
MaxTasks == 2
\* how many handler invocations are in flight at once
NumRequests == 2

---------------------------------------------------------------------------
(* Sequences and characters. *)

RECURSIVE SumSeq(_)
SumSeq(s) == IF s = <<>> THEN 0 ELSE Head(s) + SumSeq(Tail(s))

RECURSIVE Flatten(_)
Flatten(ss) == IF ss = <<>> THEN <<>> ELSE Head(ss) \o Flatten(Tail(ss))

\* str.split(sep): the fields between the occurrences of sep
RECURSIVE SplitOn(_, _)
SplitOn(s, sep) ==
    IF \A i \in 1..Len(s) : s[i] # sep
    THEN <<s>>
    ELSE LET k == CHOOSE i \in 1..Len(s) :
                      s[i] = sep /\ \A j \in 1..(i - 1) : s[j] # sep
         IN  <<SubSeq(s, 1, k - 1)>> \o SplitOn(SubSeq(s, k + 1, Len(s)), sep)

\* the characters of the model and their code points (ASCII, so that the
\* UTF-8 encoding of a character is the one byte of its code point)
CodeTable ==
    <<  <<" ", 32>>, <<":", 58>>, <<"x", 120>>, <<"y", 121>>,
        <<"X", 88>>, <<"Y", 89>>,
        <<"0", 48>>, <<"1", 49>>, <<"2", 50>>, <<"3", 51>>, <<"4", 52>>,
        <<"5", 53>>, <<"6", 54>>, <<"7", 55>>, <<"8", 56>>, <<"9", 57>>,
        <<"a", 97>>, <<"b", 98>>, <<"c", 99>>, <<"d", 100>>, <<"e", 101>>,
        <<"f", 102>>, <<"h", 104>>, <<"i", 105>>, <<"m", 109>>, <<"n", 110>>,
        <<"o", 111>>, <<"p", 112>>, <<"r", 114>>, <<"s", 115>>, <<"t", 116>>,
        <<"u", 117>>, <<"w", 119>>, <<"A", 65>>, <<"I", 73>>, <<"M", 77>>,
        <<"P", 80>>, <<"+", 43>>, <<"-", 45>>, <<".", 46>> >>

Chars == { CodeTable[i][1] : i \in 1..Len(CodeTable) }

Ord(c) == LET i == CHOOSE k \in 1..Len(CodeTable) : CodeTable[k][1] = c
          IN  CodeTable[i][2]

IsCode(b) == \E k \in 1..Len(CodeTable) : CodeTable[k][2] = b

Chr(b) == LET i == CHOOSE k \in 1..Len(CodeTable) : CodeTable[k][2] = b
          IN  CodeTable[i][1]

\* str.encode('utf-8') and bytes.decode('utf-8') on the model's characters
Utf8Encode(text) == [i \in 1..Len(text) |-> Ord(text[i])]

Utf8Decodable(bytes) == \A i \in 1..Len(bytes) : IsCode(bytes[i])

Utf8Decode(bytes) == [i \in 1..Len(bytes) |-> Chr(bytes[i])]

HexDigits == <<"0", "1", "2", "3", "4", "5", "6", "7",
               "8", "9", "a", "b", "c", "d", "e", "f">>

UpperHexDigits == <<"0", "1", "2", "3", "4", "5", "6", "7",
                    "8", "9", "A", "B", "C", "D", "E", "F">>

IsHexDigit(c) == \E k \in 1..16 : HexDigits[k] = c \/ UpperHexDigits[k] = c

HexValue(c) ==
    (CHOOSE k \in 1..16 : HexDigits[k] = c \/ UpperHexDigits[k] = c) - 1

\* a byte written without its leading digit
HexOfByteShort(b) == <<HexDigits[(b % 16) + 1]>>

\* bytes.hex(): two lower-case digits per byte
HexOfByte(b) == <<HexDigits[(b \div 16) + 1], HexDigits[(b % 16) + 1]>>

ToHex(bytes) == Flatten([i \in 1..Len(bytes) |-> HexOfByte(bytes[i])])

\* bytes.fromhex(): defined when the digits pair up (white space between
\* two pairs is skipped); a ValueError otherwise
RECURSIVE FromHexOk(_)
FromHexOk(s) ==
    IF s = <<>> THEN TRUE
    ELSE IF s[1] = " " THEN FromHexOk(Tail(s))
    ELSE /\ Len(s) >= 2
         /\ IsHexDigit(s[1])
         /\ IsHexDigit(s[2])
         /\ FromHexOk(SubSeq(s, 3, Len(s)))

RECURSIVE FromHex(_)
FromHex(s) ==
    IF s = <<>> THEN <<>>
    ELSE IF s[1] = " " THEN FromHex(Tail(s))
    ELSE <<16 * HexValue(s[1]) + HexValue(s[2])>>
             \o FromHex(SubSeq(s, 3, Len(s)))

---------------------------------------------------------------------------
(* The title codec, src/utils.py.  AES-GCM under the process-wide key is   *)
(* represented by a keyed stream cipher and a keyed tag over the nonce and *)
(* the ciphertext: what the codec relies on is that the key stream and the *)
(* tag are functions of (key, nonce) and (key, nonce, ciphertext).         *)

\* the key, a sample value
KEY == 165
\* the length of the nonce, in bytes
IV_LENGTH == 12
\* the length of the tag AES.new(..., MODE_GCM) produces by default
TagLength == 16

RECURSIVE XorBits(_, _, _)
XorBits(a, b, n) ==
    IF n = 0 THEN 0
    ELSE ((a + b) % 2) + 2 * XorBits(a \div 2, b \div 2, n - 1)

KeyStream(iv, i) == (KEY + 7 * SumSeq(iv) + 13 * i) % 256

GcmCrypt(iv, bytes) ==
    [i \in 1..Len(bytes) |-> XorBits(bytes[i], KeyStream(iv, i), 8)]

GcmTag(iv, ct) ==
    [j \in 1..TagLength |->
        (3 * KEY + SumSeq(iv) + 11 * j
           + SumSeq([i \in 1..Len(ct) |-> (i + j) * ct[i]])) % 256]

\* get_random_bytes(n): any value of the random source
RandomBytes(n) == { [i \in 1..n |-> (37 * s + i) % 256] : s \in 1..NumNonces }

\* encrypt(text), given the bytes get_random_bytes returned
encrypt(text, iv) ==
    IF text = <<>> THEN text
    ELSE LET encrypted_bytes == GcmCrypt(iv, Utf8Encode(text))
             auth_tag == GcmTag(iv, encrypted_bytes)
         IN  ToHex(iv) \o <<":">> \o ToHex(auth_tag) \o <<":">>
                 \o ToHex(encrypted_bytes)

\* a decryption that does not compare the tag
DecryptUnverified(parts) ==
    /\ FromHexOk(parts[1]) /\ FromHexOk(parts[2]) /\ FromHexOk(parts[3])
    /\ FromHex(parts[1]) # <<>>
    /\ Utf8Decodable(GcmCrypt(FromHex(parts[1]), FromHex(parts[3])))

\* the three fields of a stored value decode, the nonce is not empty, the
\* tag verifies and the plaintext is UTF-8: no ValueError is raised
DecryptSucceeds(parts) ==
    /\ FromHexOk(parts[1]) /\ FromHexOk(parts[2]) /\ FromHexOk(parts[3])
    /\ LET iv == FromHex(parts[1])
           auth_tag == FromHex(parts[2])
           encrypted_text == FromHex(parts[3])
       IN  /\ iv # <<>>
           /\ auth_tag = GcmTag(iv, encrypted_text)
           /\ Utf8Decodable(GcmCrypt(iv, encrypted_text))

\* a test that takes the first three of more fields
FewerThanThree(parts) == Len(parts) < 3

\* the value does not have the three fields of an encrypted one
LegacyShape(parts) == Len(parts) # 3

decrypt(hash_str) ==
    IF hash_str = <<>> THEN hash_str
    ELSE LET parts == SplitOn(hash_str, ":")
         IN  IF LegacyShape(parts) THEN hash_str
             ELSE IF DecryptSucceeds(parts)
                  THEN Utf8Decode(GcmCrypt(FromHex(parts[1]), FromHex(parts[3])))
                  ELSE hash_str

---------------------------------------------------------------------------
(* Text: case, white space, searching. *)

CasePairs == << <<"x", "X">>, <<"y", "Y">>, <<"a", "A">>, <<"i", "I">>,
                <<"m", "M">>, <<"p", "P">>, <<"h", "H">> >>

\* str.upper() and str.lower() of one character
UpperChar(c) ==
    IF \E k \in 1..Len(CasePairs) : CasePairs[k][1] = c
    THEN CasePairs[CHOOSE k \in 1..Len(CasePairs) : CasePairs[k][1] = c][2]
    ELSE c

LowerChar(c) ==
    IF \E k \in 1..Len(CasePairs) : CasePairs[k][2] = c
    THEN CasePairs[CHOOSE k \in 1..Len(CasePairs) : CasePairs[k][2] = c][1]
    ELSE c

Upper(s) == [i \in 1..Len(s) |-> UpperChar(s[i])]

Lower(s) == [i \in 1..Len(s) |-> LowerChar(s[i])]

\* str.capitalize(): the first character upper case, the rest lower case
Capitalize(s) ==
    [i \in 1..Len(s) |-> IF i = 1 THEN UpperChar(s[i]) ELSE LowerChar(s[i])]

\* str.strip()
RECURSIVE LStrip(_)
LStrip(s) == IF s # <<>> /\ Head(s) = " " THEN LStrip(Tail(s)) ELSE s

RECURSIVE RStrip(_)
RStrip(s) ==
    IF s # <<>> /\ s[Len(s)] = " " THEN RStrip(SubSeq(s, 1, Len(s) - 1)) ELSE s

Strip(s) == RStrip(LStrip(s))

\* pat occurs in s at position i, letter case ignored
OccursAt(s, pat, i) ==
    /\ i >= 1
    /\ i + Len(pat) - 1 <= Len(s)
    /\ Lower(SubSeq(s, i, i + Len(pat) - 1)) = Lower(pat)

\* the positions from..Len(s) at which pat occurs
Occurrences(s, pat, from) == { i \in from..Len(s) : OccursAt(s, pat, i) }

Max(S) == CHOOSE x \in S : \A y \in S : y <= x

Min(S) == CHOOSE x \in S : \A y \in S : x <= y

IsDigit(c) == c \in {"0", "1", "2", "3", "4", "5", "6", "7", "8", "9"}

AllDigits(s) == \A i \in 1..Len(s) : IsDigit(s[i])

\* int() of a string of digits
RECURSIVE IntOf(_)
IntOf(s) ==
    IF s = <<>> THEN 0
    ELSE 10 * IntOf(SubSeq(s, 1, Len(s) - 1)) + HexValue(s[Len(s)])

RECURSIVE Pow10(_)
Pow10(n) == IF n = 0 THEN 1 ELSE 10 * Pow10(n - 1)

---------------------------------------------------------------------------
(* parse_timezone_offset, src/utils.py.  The result is the offset in       *)
(* seconds, or invalid (the function's None).                              *)

NoOffset == [valid |-> FALSE, delta |-> 0]

\* the groups of ^([+-])(\d{1,2})(?::?(\d{2}))?$ : hours, minutes
OffsetGroups(offset_str) ==
    LET r == Tail(offset_str)
        n == Len(r)
    IN  IF n \in {1, 2} /\ AllDigits(r)
            THEN <<TRUE, r, <<>> >>
        ELSE IF n \in {3, 4} /\ AllDigits(r)
            THEN <<TRUE, SubSeq(r, 1, n - 2), SubSeq(r, n - 1, n)>>
        ELSE IF n \in {4, 5} /\ r[n - 2] = ":"
                /\ AllDigits(SubSeq(r, 1, n - 3)) /\ AllDigits(SubSeq(r, n - 1, n))
            THEN <<TRUE, SubSeq(r, 1, n - 3), SubSeq(r, n - 1, n)>>
        ELSE <<FALSE, <<>>, <<>> >>

\* "$" of the pattern matches at the end of the text and before a newline
\* that ends it: what the groups are matched against
BeforeDollar(offset_str) ==
    IF offset_str[Len(offset_str)] = "\n"
    THEN SubSeq(offset_str, 1, Len(offset_str) - 1) ELSE offset_str

\* a parser that drops the sign
ParseOffsetUnsigned(offset_str) ==
    IF offset_str = <<>> THEN NoOffset
    ELSE LET g == OffsetGroups(BeforeDollar(offset_str))
         IN  IF ~(offset_str[1] \in {"+", "-"}) \/ ~g[1] THEN NoOffset
             ELSE IF IntOf(g[2]) > 14 \/ IntOf(g[3]) > 59 THEN NoOffset
             ELSE [valid |-> TRUE, delta |-> 3600 * IntOf(g[2]) + 60 * IntOf(g[3])]

parse_timezone_offset(offset_str) ==
    IF offset_str = <<>> THEN NoOffset
    ELSE IF ~(offset_str[1] \in {"+", "-"}) THEN NoOffset
    ELSE LET g == OffsetGroups(BeforeDollar(offset_str))
             sign == IF offset_str[1] = "-" THEN -1 ELSE 1
             hours == IntOf(g[2])
             minutes == IntOf(g[3])
         IN  IF ~g[1] THEN NoOffset
             ELSE IF hours > 14 \/ minutes > 59 THEN NoOffset
             ELSE [valid |-> TRUE, delta |-> sign * (3600 * hours + 60 * minutes)]

---------------------------------------------------------------------------
(* parse_duration_to_minutes, src/utils.py.  The result is a number of     *)
(* minutes, or -1 (the function's None).                                   *)

IsNumChar(c) == IsDigit(c) \/ c = "."

\* the end of the run of [\d\.] characters that starts at i
RECURSIVE RunEnd(_, _)
RunEnd(s, i) ==
    IF i + 1 <= Len(s) /\ IsNumChar(s[i + 1]) THEN RunEnd(s, i + 1) ELSE i

\* the position after the white space that starts at i
RECURSIVE SkipSpace(_, _)
SkipSpace(s, i) ==
    IF i <= Len(s) /\ s[i] = " " THEN SkipSpace(s, i + 1) ELSE i

\* re.search(r"([\d\.]+)\s*(unit...)"): the leftmost start of a run of
\* number characters followed, after optional white space, by a unit
UnitMatches(s, units) ==
    { i \in 1..Len(s) :
        /\ IsNumChar(s[i])
        /\ \E u \in units :
              LET k == SkipSpace(s, RunEnd(s, i) + 1)
              IN  k + Len(u) - 1 <= Len(s) /\ SubSeq(s, k, k + Len(u) - 1) = u }

\* float(): defined for digits with at most one point and one digit or more
FloatOk(num) ==
    /\ Cardinality({ i \in 1..Len(num) : num[i] = "." }) <= 1
    /\ \E i \in 1..Len(num) : IsDigit(num[i])

\* int(float(num) * factor): the product, truncated (the decimal is taken
\* exactly; the rounding error of the binary float is not represented)
TruncatedProduct(num, factor) ==
    LET parts == SplitOn(num, ".")
        whole == IntOf(parts[1])
        frac == IF Len(parts) = 2 THEN parts[2] ELSE <<>>
    IN  (factor * (whole * Pow10(Len(frac)) + IntOf(frac))) \div Pow10(Len(frac))

HourUnits == { <<"h", "o", "u", "r">>, <<"h", "r">>, <<"h">> }

MinuteUnits == { <<"m", "i", "n", "u", "t", "e">>, <<"m", "i", "n">>, <<"m">> }

parse_duration_to_minutes(duration_str) ==
    LET s == Strip(Lower(duration_str))
        hour == UnitMatches(s, HourUnits)
        minute == UnitMatches(s, MinuteUnits)
        NumberAt(i) == SubSeq(s, i, RunEnd(s, i))
    IN  IF hour # {}
            THEN IF FloatOk(NumberAt(Min(hour)))
                 THEN TruncatedProduct(NumberAt(Min(hour)), 60) ELSE -1
        ELSE IF minute # {}
            THEN IF FloatOk(NumberAt(Min(minute)))
                 THEN TruncatedProduct(NumberAt(Min(minute)), 1) ELSE -1
        ELSE IF s # <<>> /\ \A i \in 1..Len(s) : IsNumChar(s[i])
            THEN IF FloatOk(s) THEN TruncatedProduct(s, 1) ELSE -1
        ELSE -1

---------------------------------------------------------------------------
(* parse_local_time_to_naive_datetime, src/utils.py. *)

\* datetime.replace(hour=h, minute=m, second=0, microsecond=0)
ReplaceHM(t, h, m) == (t - (t % 86400)) + 3600 * h + 60 * m

NumberUpTo(f, lo, hi) ==
    /\ Len(f) \in {1, 2}
    /\ AllDigits(f)
    /\ IntOf(f) >= lo
    /\ IntOf(f) <= hi

IsMeridiem(f) == f = <<"A", "M">> \/ f = <<"P", "M">>

\* %I with %p: 12AM is 0, 12PM is 12, PM adds 12 otherwise
Hour12(f, p) ==
    IF p = <<"P", "M">>
    THEN (IF IntOf(f) = 12 THEN 12 ELSE IntOf(f) + 12)
    ELSE (IF IntOf(f) = 12 THEN 0 ELSE IntOf(f))

NoClock == [ok |-> FALSE, hour |-> 0, minute |-> 0]

\* datetime.strptime over "%H:%M", "%I:%M%p", "%I%p", the first that parses
ParseClock(time_str) ==
    LET s == Upper(Strip(time_str))
        parts == SplitOn(s, ":")
        n == Len(s)
        m2 == Len(parts[2])
    IN  IF Len(parts) = 2 /\ NumberUpTo(parts[1], 0, 23) /\ NumberUpTo(parts[2], 0, 59)
            THEN [ok |-> TRUE, hour |-> IntOf(parts[1]), minute |-> IntOf(parts[2])]
        ELSE IF /\ Len(parts) = 2
                /\ NumberUpTo(parts[1], 1, 12)
                /\ m2 >= 3
                /\ IsMeridiem(SubSeq(parts[2], m2 - 1, m2))
                /\ NumberUpTo(SubSeq(parts[2], 1, m2 - 2), 0, 59)
            THEN [ok |-> TRUE,
                  hour |-> Hour12(parts[1], SubSeq(parts[2], m2 - 1, m2)),
                  minute |-> IntOf(SubSeq(parts[2], 1, m2 - 2))]
        ELSE IF /\ Len(parts) = 1
                /\ n >= 3
                /\ IsMeridiem(SubSeq(s, n - 1, n))
                /\ NumberUpTo(SubSeq(s, 1, n - 2), 1, 12)
            THEN [ok |-> TRUE,
                  hour |-> Hour12(SubSeq(s, 1, n - 2), SubSeq(s, n - 1, n)),
                  minute |-> 0]
        ELSE NoClock

\* a resolution that takes a time equal to now for past
ResolveClockLoose(now_local, hour, minute) ==
    IF ReplaceHM(now_local, hour, minute) <= now_local
    THEN ReplaceHM(now_local, hour, minute) + 86400
    ELSE ReplaceHM(now_local, hour, minute)

\* the parsed clock time on the day of now_local, a day later when that is
\* before now_local
ResolveClock(now_local, hour, minute) ==
    LET task_dt_local == ReplaceHM(now_local, hour, minute)
    IN  IF task_dt_local < now_local THEN task_dt_local + 86400
        ELSE task_dt_local

\* the naive datetime, or -1 (the function's None)
parse_local_time_to_naive_datetime(time_str, now_local) ==
    LET parsed_time == ParseClock(time_str)
    IN  IF ~parsed_time.ok THEN -1
        ELSE ResolveClock(now_local, parsed_time.hour, parsed_time.minute)

---------------------------------------------------------------------------
(* The command grammar. *)

IWantTo == <<"i", " ", "w", "a", "n", "t", " ", "t", "o", " ">>
SepFor == <<" ", "f", "o", "r", " ">>
SepAt == <<" ", "a", "t", " ">>

NoMatch == [matched |-> FALSE, g1 |-> <<>>, g2 |-> <<>>, has3 |-> FALSE, g3 |-> <<>>]

\* where the greedy second group (.*) of handlers.py ends: it runs to the end
\* of the text, after which the optional " at (.*)" matches nothing
Group2End(text, from) == Len(text)

\* a pattern that every text matches
MatchAnything(text) ==
    [matched |-> TRUE, g1 |-> text, g2 |-> <<>>, has3 |-> FALSE, g3 |-> <<>>]

\* re.match(r"i want to (.*) for (.*)(?: at (.*))?", text, re.IGNORECASE)
\* of handlers.py: the first group runs to the last " for "
CommandMatch(text) ==
    LET fors == Occurrences(text, SepFor, Len(IWantTo) + 1)
        k == Max(fors)
        e == Group2End(text, k + Len(SepFor))
    IN  IF ~OccursAt(text, IWantTo, 1) \/ fors = {} THEN NoMatch
        ELSE [matched |-> TRUE,
              g1 |-> SubSeq(text, Len(IWantTo) + 1, k - 1),
              g2 |-> SubSeq(text, k + Len(SepFor), e),
              has3 |-> OccursAt(text, SepAt, e + 1),
              g3 |-> IF OccursAt(text, SepAt, e + 1)
                     THEN SubSeq(text, e + 1 + Len(SepAt), Len(text)) ELSE <<>>]

\* re.match(r"i want to (.*) for (.*) at (.*)", text, re.IGNORECASE) of
\* main.py: the first group runs to the last " for " that an " at " follows,
\* the second to the last " at "
LegacyCommandMatch(text) ==
    LET ats == Occurrences(text, SepAt, Len(IWantTo) + 1)
        fors == { k \in Occurrences(text, SepFor, Len(IWantTo) + 1) :
                    \E a \in ats : a >= k + Len(SepFor) }
        k == Max(fors)
        a == Max(ats)
    IN  IF ~OccursAt(text, IWantTo, 1) \/ fors = {} THEN NoMatch
        ELSE [matched |-> TRUE,
              g1 |-> SubSeq(text, Len(IWantTo) + 1, k - 1),
              g2 |-> SubSeq(text, k + Len(SepFor), a - 1),
              has3 |-> TRUE,
              g3 |-> SubSeq(text, a + Len(SepAt), Len(text))]

---------------------------------------------------------------------------
(* The tables and their accessors, src/db.py. *)

Chats == {"g", "u1", "u2", "u3", "u4", "u5"}

\* the senders; in a private chat the chat id is the sender's user id
Users == {"u1", "u2", "u3", "u4", "u5"}

NoRow == [found |-> FALSE, user_id |-> "", timezone_offset |-> <<>>,
          timetable_start |-> -1, timetable_end |-> -1]

SettingsRow(user_id, offset, start, end) ==
    [found |-> TRUE, user_id |-> user_id, timezone_offset |-> offset,
     timetable_start |-> start, timetable_end |-> end]

\* the rows of UserSettings, which the Plazen app writes: a linked group chat
\* with an offset and working hours, a chat with no offset, an unlinked chat,
\* a chat with an offset out of range, a chat with no working hours, a chat
\* 3 hours 40 minutes ahead of UTC
InitProfiles ==
    [c \in Chats |->
        CASE c = "g"  -> SettingsRow("U", <<"+", "2", ":", "0", "0">>, 9, 10)
          [] c = "u1" -> SettingsRow("V", <<>>, 9, 10)
          [] c = "u2" -> NoRow
          [] c = "u3" -> SettingsRow("W", <<"+", "1", "5", ":", "0", "0">>, 9, 10)
          [] c = "u4" -> SettingsRow("Z", <<"-", "7">>, -1, -1)
          [] c = "u5" -> SettingsRow("Y", <<"+", "3", ":", "4", "0">>, 9, 10)]

\* column notifications of UserSettings, which the Plazen app writes
Notifications == [c \in Chats |-> c \in {"g", "u1", "u5"}]

\* the order in which a query returns the rows of UserSettings
ChatOrder == <<"g", "u1", "u2", "u3", "u4", "u5">>

\* get_users_for_reminders: the rows with notifications on and a chat id,
\* [] when the call fails
get_users_for_reminders(ok) ==
    IF ~ok THEN <<>>
    ELSE LET notified == SelectSeq(ChatOrder,
                             LAMBDA c : profiles[c].found /\ Notifications[c])
         IN  [i \in 1..Len(notified) |->
                 [user_id |-> profiles[notified[i]].user_id,
                  telegram_id |-> notified[i],
                  timezone_offset |-> profiles[notified[i]].timezone_offset]]

\* a query that leaves out the condition on is_completed
get_tasks_in_window(user_id, start_naive, end_naive, ok) ==
    IF ~ok THEN {}
    ELSE { [t EXCEPT !.title = decrypt(t.title)] :
             t \in { x \in tasks : /\ x.user_id = user_id
                                   /\ x.scheduled_time >= start_naive
                                   /\ x.scheduled_time < end_naive } }

\* get_tasks_for_reminder: the user's rows that are not completed and start
\* in [start_naive, end_naive), their titles decrypted; [] when the call fails
get_tasks_for_reminder(user_id, start_naive, end_naive, ok) ==
    IF ~ok THEN {}
    ELSE { [t EXCEPT !.title = decrypt(t.title)] :
             t \in { x \in tasks : /\ x.user_id = user_id
                                   /\ ~x.is_completed
                                   /\ x.scheduled_time >= start_naive
                                   /\ x.scheduled_time < end_naive } }

\* update_user_timezone: the rows updated; None when the call fails, no row
\* when the chat has none
update_user_timezone(chat_id, offset_str, ok) ==
    IF ok /\ profiles[chat_id].found
    THEN [profiles EXCEPT ![chat_id].timezone_offset = offset_str]
    ELSE profiles

\* get_user_settings_by_telegram_chat_id: the row, or None when there is no
\* row or the call fails
get_user_settings_by_telegram_chat_id(chat_id, ok) ==
    IF ok THEN profiles[chat_id] ELSE NoRow

\* fetch_schedule_for_user_in_range: the user's rows that start in
\* [range_start, range_end), their titles decrypted; [] when the call fails
fetch_schedule_for_user_in_range(user_id, range_start, range_end, ok) ==
    IF ~ok THEN {}
    ELSE { [t EXCEPT !.title = decrypt(t.title)] :
             t \in { x \in tasks : /\ x.user_id = user_id
                                   /\ x.scheduled_time >= range_start
                                   /\ x.scheduled_time < range_end } }

\* the row the table adds for new_task
NewRow(user_id, title, scheduled_time, duration_minutes) ==
    [id |-> Cardinality(tasks) + 1, user_id |-> user_id, title |-> title,
     scheduled_time |-> scheduled_time, duration_minutes |-> duration_minutes,
     is_completed |-> FALSE]

\* create_task: the title is encrypted, then the row is inserted
CreateTaskRow(user_id, title, scheduled_time, duration_minutes, iv) ==
    NewRow(user_id, encrypt(title, iv), scheduled_time, duration_minutes)

---------------------------------------------------------------------------
(* The slot search of handle_ai_task_creation, src/handlers.py. *)

\* the busy interval of each existing task, 30 minutes when it has no duration
ParsedTasksList(existing_tasks_raw) ==
    { <<t.scheduled_time,
        t.scheduled_time
          + 60 * (IF t.duration_minutes \in {0, -1} THEN 30 ELSE t.duration_minutes)>> :
      t \in existing_tasks_raw }

\* a first candidate that drops the seconds of search_start_time
FirstSlotNoSeconds(search_start_time) ==
    LET whole == search_start_time - (search_start_time % 60)
        minutes_past_interval == ((whole \div 60) % 60) % 15
    IN  IF minutes_past_interval > 0
        THEN whole + 60 * (15 - minutes_past_interval)
        ELSE whole

\* the first candidate: search_start_time moved up to a whole minute, then to
\* a quarter of an hour
FirstSlot(search_start_time) ==
    LET floor == search_start_time - (search_start_time % 60)
        whole == IF search_start_time % 60 > 0 THEN floor + 60 ELSE floor
        minutes_past_interval == ((whole \div 60) % 60) % 15
    IN  IF minutes_past_interval > 0
        THEN whole + 60 * (15 - minutes_past_interval)
        ELSE whole

\* a search that is not ended by the end of the day
NeverAfterDay(slot_end, today_end_dt) == FALSE

\* a slot that finishes after the end of the day ends the search
EndsAfterDay(slot_end, today_end_dt) == slot_end > today_end_dt

\* a conflict test that takes intervals that only touch for overlapping
TouchIsConflict(slot_start, slot_end, parsed_tasks_list) ==
    \E b \in parsed_tasks_list : slot_start <= b[2] /\ slot_end >= b[1]

IsConflict(slot_start, slot_end, parsed_tasks_list) ==
    \E b \in parsed_tasks_list : slot_start < b[2] /\ slot_end > b[1]

RECURSIVE SlotLoop(_, _, _, _)
SlotLoop(current_slot_start, today_end_dt, duration_minutes, parsed_tasks_list) ==
    LET slot_end == current_slot_start + 60 * duration_minutes
    IN  IF ~(current_slot_start < today_end_dt) THEN <<>>
        ELSE IF EndsAfterDay(slot_end, today_end_dt) THEN <<>>
        ELSE (IF IsConflict(current_slot_start, slot_end, parsed_tasks_list)
              THEN <<>> ELSE <<current_slot_start>>)
             \o SlotLoop(current_slot_start + 60 * 15, today_end_dt,
                         duration_minutes, parsed_tasks_list)

Later(a, b) == IF a >= b THEN a ELSE b

ValidSlots(now_local, today_start_dt, today_end_dt, duration_minutes, parsed_tasks_list) ==
    SlotLoop(FirstSlot(Later(now_local, today_start_dt)), today_end_dt,
             duration_minutes, parsed_tasks_list)

---------------------------------------------------------------------------
(* The messages and the handler invocations. *)

Requests == 1..NumRequests

\* the instants at which the clock is read (UTC): 08:00:00, 09:07:30 and
\* 10:30:00 at the offset +2:00
Instants == {21600, 25650, 30600}

Title == <<"x">>
Dur30 == <<"3", "0", " ", "m", "i", "n">>
Dur2h == <<"2", " ", "h", "o", "u", "r", "s">>
Dur0 == <<"0", " ", "m", "i", "n">>
At0830 == <<"0", "8", ":", "3", "0">>
At2599 == <<"2", "5", ":", "9", "9">>

TextAuto30 == IWantTo \o Title \o SepFor \o Dur30
TextAuto2h == IWantTo \o Title \o SepFor \o Dur2h
TextAt30 == IWantTo \o Title \o SepFor \o Dur30 \o SepAt \o At0830
TextAt2h == IWantTo \o Title \o SepFor \o Dur2h \o SepAt \o At0830
TextBadTime == IWantTo \o Title \o SepFor \o Dur30 \o SepAt \o At2599
TextNoTitle == IWantTo \o SepFor \o Dur30
TextBadDur == IWantTo \o Title \o SepFor \o Title
TextChat == <<"h", "i">>
TextNoFor == IWantTo \o Title
TextAt0 == IWantTo \o Title \o SepFor \o Dur0 \o SepAt \o At0830

Message(handler, chat, user, text) ==
    [handler |-> handler, chat |-> chat, user |-> user, text |-> text]

\* the updates the dispatcher hands to the handler of handlers.py
\* ("handlers") and to the one of main.py ("main")
Inputs ==
    { Message("handlers", "g", "u1", TextAuto30),
      Message("handlers", "g", "u2", TextAt30),
      Message("handlers", "u1", "u1", TextAuto30),
      Message("handlers", "u2", "u2", TextAuto30),
      Message("handlers", "u3", "u3", TextAt30),
      Message("main", "g", "u1", TextAt2h),
      Message("main", "g", "u1", TextAuto30),
      Message("main", "u2", "u2", TextAt2h),
      Message("main", "u3", "u3", TextAt2h) }

\* more updates for the handler of handlers.py: commands whose durations are
\* zero and positive, texts that are no commands, commands with no title and
\* with no duration, and commands in chats whose profiles are not set up
HandlerInputs ==
    { Message("handlers", "u5", "u5", TextAt0),
      Message("handlers", "u5", "u5", TextAuto30),
      Message("handlers", "g", "u1", TextChat),
      Message("handlers", "g", "u2", TextNoFor),
      Message("handlers", "g", "u1", TextNoTitle),
      Message("handlers", "g", "u1", TextBadDur),
      Message("handlers", "u2", "u2", TextAuto30),
      Message("handlers", "u3", "u3", TextAuto30),
      Message("handlers", "u4", "u4", TextAuto30) }

\* the auto-slot commands sent over the tables of SlotTables
Dur45 == <<"4", "5">>

TextAuto45 == IWantTo \o Title \o SepFor \o Dur45

SlotInputs ==
    { Message("handlers", "g", "u1", TextAuto30),
      Message("handlers", "g", "u1", TextAuto45),
      Message("handlers", "g", "u1", TextAuto2h) }

Idle ==
    [pc |-> "idle", handler |-> "", chat |-> "", user |-> "", text |-> <<>>,
     user_id |-> "", title |-> <<>>, duration_minutes |-> 0,
     path |-> "", now_local |-> 0, start_hour |-> 0, end_hour |-> 0,
     task_dt_naive |-> 0, message |-> "", created |-> 0]

\* what the two command patterns yield for each text
Texts == { in.text : in \in Inputs \cup HandlerInputs \cup SlotInputs }

Matches == [t \in Texts |-> CommandMatch(t)]

LegacyMatches == [t \in Texts |-> LegacyCommandMatch(t)]

\* the reminder loop before its first check
Asleep == [pc |-> "sleep", wake |-> Min(Instants), n |-> 0, users |-> <<>>, log |-> <<>>]

Init ==
    /\ revision = "main"
    /\ clock = Min(Instants)
    /\ profiles = InitProfiles
    /\ tasks = {}
    /\ req = [r \in Requests |-> Idle]
    /\ locks = [u \in Users |-> 0]
    /\ calls = <<>>
    /\ job = Asleep
    /\ sent = {}

\* the invocation once its reply is decided: the reply is sent, and the lock
\* released, by Finish; the local variables are no longer read
Replying(q, message, path, created) ==
    [Idle EXCEPT !.pc = "reply", !.handler = q.handler, !.chat = q.chat,
                 !.user = q.user, !.message = message, !.path = path,
                 !.created = created]

Reply(r, message) ==
    req' = [req EXCEPT ![r] = Replying(req[r], message, req[r].path, 0)]

\* time passes
Tick ==
    /\ \E t \in Instants : t > clock /\ clock' = t
    /\ UNCHANGED <<revision, profiles, tasks, req, locks, calls, job, sent>>

\* the bot is stopped and the later revision started; the tables stay
Upgrade ==
    /\ revision = "main"
    /\ \A r \in Requests : req[r].pc = "idle"
    /\ revision' = "handlers"
    /\ UNCHANGED <<clock, profiles, tasks, req, locks, calls, job, sent>>

\* main.py, lines 386-398: the dispatcher of main.py calls the handler with
\* the next update once the last one returned; a text that does not match
\* is ignored
LegacySubmit(r, in) ==
    /\ revision = "main"
    /\ in.handler = "main"
    /\ \A q \in Requests : req[q].pc = "idle"
    /\ r = 1
    /\ req' = [req EXCEPT ![r] =
                 IF LegacyMatches[in.text].matched
                 THEN [Idle EXCEPT !.pc = "m_settings", !.handler = in.handler,
                           !.chat = in.chat, !.user = in.user, !.text = in.text]
                 ELSE Idle]
    /\ UNCHANGED <<revision, clock, profiles, tasks, locks, calls, job, sent>>

\* handlers.py, lines 146-154: the handler is called with an update; the lock
\* of context.user_data, which the library keeps per sender, is made if
\* absent and awaited
Submit(r, in) ==
    /\ revision = "handlers"
    /\ in.handler = "handlers"
    /\ req[r].pc = "idle"
    /\ \A q \in Requests : q < r => req[q].pc # "idle"
    /\ req' = [req EXCEPT ![r] =
                 [Idle EXCEPT !.pc = "lock", !.handler = in.handler,
                     !.chat = in.chat, !.user = in.user, !.text = in.text]]
    /\ UNCHANGED <<revision, clock, profiles, tasks, locks, calls, job, sent>>

\* handlers.py, lines 154-165: the lock is taken; a text that does not match
\* is ignored, which the log says (line 160), and the lock released at once
AcquireLock(r) ==
    /\ req[r].pc = "lock"
    /\ locks[req[r].user] = 0
    /\ IF Matches[req[r].text].matched
       THEN /\ req' = [req EXCEPT ![r].pc = "settings"]
            /\ locks' = [locks EXCEPT ![req[r].user] = r]
            /\ UNCHANGED calls
       ELSE /\ req' = [req EXCEPT ![r] = Idle]
            /\ calls' = << [op |-> "ignoring", chat |-> req[r].chat] >>
            /\ UNCHANGED locks
    /\ UNCHANGED <<revision, clock, profiles, tasks, job, sent>>

\* a check that takes a missing profile for a linked one
AnyProfile(user_settings) == TRUE

\* the profile is linked
ProfileKnown(user_settings) == user_settings.found /\ user_settings.user_id # ""

\* handlers.py, lines 165-237: the profile is read and the command checked;
\* with a time clause the time is resolved, without one the working window
\* of today is computed and the existing tasks are asked for
GetSettings(r, ok) ==
    /\ req[r].pc = "settings"
    /\ LET user_settings == get_user_settings_by_telegram_chat_id(req[r].chat, ok)
           user_timezone == parse_timezone_offset(user_settings.timezone_offset)
           match == Matches[req[r].text]
           title == Capitalize(Strip(match.g1))
           duration_str == Strip(match.g2)
           time_str == IF match.has3 THEN Strip(match.g3) ELSE <<>>
           duration_minutes == parse_duration_to_minutes(duration_str)
           now_local == clock + user_timezone.delta
           task_dt_naive == parse_local_time_to_naive_datetime(time_str, now_local)
           known == [req[r] EXCEPT !.user_id = user_settings.user_id,
                                   !.title = title,
                                   !.duration_minutes = duration_minutes]
       IN  IF ~ProfileKnown(user_settings) THEN Reply(r, "who")
           ELSE IF ~user_timezone.valid THEN Reply(r, "timezone")
           ELSE IF title = <<>> THEN Reply(r, "title")
           ELSE IF duration_minutes = -1 THEN Reply(r, "duration")
           ELSE IF time_str # <<>>
           THEN IF task_dt_naive = -1 THEN Reply(r, "time")
                ELSE req' = [req EXCEPT ![r] =
                               [known EXCEPT !.pc = "create", !.path = "explicit",
                                             !.task_dt_naive = task_dt_naive]]
           ELSE IF user_settings.timetable_start = -1 \/ user_settings.timetable_end = -1
           THEN Reply(r, "hours")
           ELSE req' = [req EXCEPT ![r] =
                          [known EXCEPT !.pc = "fetch", !.path = "auto",
                                        !.now_local = now_local,
                                        !.start_hour = user_settings.timetable_start,
                                        !.end_hour = user_settings.timetable_end]]
    /\ UNCHANGED <<revision, clock, profiles, tasks, locks, calls, job, sent>>

\* today at start_hour:00 and at end_hour:00
TodayStart(q) == ReplaceHM(q.now_local, q.start_hour, 0)

TodayEnd(q) == ReplaceHM(q.now_local, q.end_hour, 0)

\* handlers.py, lines 237-306: the existing tasks arrive, the free slots are
\* collected and one is chosen at random; none free is reported
FetchSchedule(r, ok) ==
    /\ req[r].pc = "fetch"
    /\ LET existing_tasks_raw ==
               fetch_schedule_for_user_in_range(req[r].user_id, TodayStart(req[r]),
                                                TodayEnd(req[r]), ok)
           valid_slots ==
               ValidSlots(req[r].now_local, TodayStart(req[r]), TodayEnd(req[r]),
                          req[r].duration_minutes, ParsedTasksList(existing_tasks_raw))
       IN  IF valid_slots = <<>> THEN Reply(r, "noslot")
           ELSE \E i \in 1..Len(valid_slots) :
                   req' = [req EXCEPT ![r].pc = "create",
                                      ![r].now_local = 0,
                                      ![r].task_dt_naive = valid_slots[i]]
    /\ UNCHANGED <<revision, clock, profiles, tasks, locks, calls, job, sent>>

\* a handler that confirms the task whatever the store answered
CreateTaskUnconfirmed(r, ok, iv) ==
    /\ req[r].pc = "create"
    /\ LET row == CreateTaskRow(req[r].user_id, req[r].title,
                                req[r].task_dt_naive, req[r].duration_minutes, iv)
       IN  /\ tasks' = IF ok /\ Cardinality(tasks) < MaxTasks
                       THEN tasks \cup {row} ELSE tasks
           /\ req' = [req EXCEPT ![r] =
                        Replying(req[r], "scheduled", req[r].path, row.id)]
    /\ UNCHANGED <<revision, clock, profiles, locks, calls, job, sent>>

\* handlers.py, lines 309-328, and create_task of db.py: the row is inserted
\* with its title encrypted; a failed insert is reported
CreateTask(r, ok, iv) ==
    /\ req[r].pc = "create"
    /\ IF ok /\ Cardinality(tasks) < MaxTasks
       THEN LET row == CreateTaskRow(req[r].user_id, req[r].title,
                                     req[r].task_dt_naive, req[r].duration_minutes, iv)
            IN  /\ tasks' = tasks \cup {row}
                /\ req' = [req EXCEPT ![r] =
                             Replying(req[r], "scheduled", req[r].path, row.id)]
       ELSE /\ Reply(r, "savefailed")
            /\ UNCHANGED tasks
    /\ UNCHANGED <<revision, clock, profiles, locks, calls, job, sent>>

\* main.py, lines 398-467: the handler of main.py, which takes no lock,
\* requires a time clause and inserts the row itself
LegacyHandle(r, ok, inserted) ==
    /\ req[r].pc = "m_settings"
    /\ LET user_settings == get_user_settings_by_telegram_chat_id(req[r].chat, ok)
           user_timezone == parse_timezone_offset(user_settings.timezone_offset)
           match == LegacyMatches[req[r].text]
           title == Strip(match.g1)
           duration_minutes == parse_duration_to_minutes(Strip(match.g2))
           now_local == clock + user_timezone.delta
           task_dt_naive == parse_local_time_to_naive_datetime(Strip(match.g3), now_local)
           row == NewRow(user_settings.user_id, title, task_dt_naive, duration_minutes)
       IN  IF ~ProfileKnown(user_settings) THEN Reply(r, "who") /\ UNCHANGED tasks
           ELSE IF ~user_timezone.valid THEN Reply(r, "timezone") /\ UNCHANGED tasks
           ELSE IF title = <<>> THEN Reply(r, "title") /\ UNCHANGED tasks
           ELSE IF duration_minutes = -1 THEN Reply(r, "duration") /\ UNCHANGED tasks
           ELSE IF task_dt_naive = -1 THEN Reply(r, "time") /\ UNCHANGED tasks
           ELSE IF inserted /\ Cardinality(tasks) < MaxTasks
           THEN /\ tasks' = tasks \cup {row}
                /\ req' = [req EXCEPT ![r] =
                             Replying(req[r], "scheduled", "explicit", row.id)]
           ELSE Reply(r, "oops") /\ UNCHANGED tasks
    /\ UNCHANGED <<revision, clock, profiles, locks, calls, job, sent>>

\* a handler that returns with the lock still held
FinishHolding(r) ==
    /\ req[r].pc = "reply"
    /\ req' = [req EXCEPT ![r] = Idle]
    /\ UNCHANGED <<revision, clock, profiles, tasks, locks, calls, job, sent>>

\* the reply is sent and the handler returns; leaving "async with lock"
\* releases the lock
Finish(r) ==
    /\ req[r].pc = "reply"
    /\ req' = [req EXCEPT ![r] = Idle]
    /\ locks' = IF req[r].handler = "handlers"
                THEN [locks EXCEPT ![req[r].user] = 0] ELSE locks
    /\ UNCHANGED <<revision, clock, profiles, tasks, calls, job, sent>>

Next ==
    \/ Tick
    \/ Upgrade
    \/ \E r \in Requests, in \in Inputs : LegacySubmit(r, in)
    \/ \E r \in Requests, in \in Inputs : Submit(r, in)
    \/ \E r \in Requests : AcquireLock(r)
    \/ \E r \in Requests, ok \in BOOLEAN : GetSettings(r, ok)
    \/ \E r \in Requests, ok \in BOOLEAN : FetchSchedule(r, ok)
    \/ \E r \in Requests, ok \in BOOLEAN, iv \in RandomBytes(IV_LENGTH) :
          CreateTask(r, ok, iv)
    \/ \E r \in Requests, ok \in BOOLEAN, inserted \in BOOLEAN :
          LegacyHandle(r, ok, inserted)
    \/ \E r \in Requests : Finish(r)

Spec == Init /\ [][Next]_vars

\* the bot started at the later revision, with the updates of HandlerInputs
InitHandlers ==
    /\ revision = "handlers"
    /\ clock = Min(Instants)
    /\ profiles = InitProfiles
    /\ tasks = {}
    /\ req = [r \in Requests |-> Idle]
    /\ locks = [u \in Users |-> 0]
    /\ calls = <<>>
    /\ job = Asleep
    /\ sent = {}

NextHandlers ==
    \/ Tick
    \/ \E r \in Requests, in \in HandlerInputs : Submit(r, in)
    \/ \E r \in Requests : AcquireLock(r)
    \/ \E r \in Requests, ok \in BOOLEAN : GetSettings(r, ok)
    \/ \E r \in Requests, ok \in BOOLEAN : FetchSchedule(r, ok)
    \/ \E r \in Requests, ok \in BOOLEAN, iv \in RandomBytes(IV_LENGTH) :
          CreateTask(r, ok, iv)
    \/ \E r \in Requests : Finish(r)

SpecHandlers == InitHandlers /\ [][NextHandlers]_vars

\* the external calls return and the replies are sent; asyncio.Lock wakes its
\* waiters in the order they came, so that a waiter is not passed over for
\* ever
FairSpecHandlers ==
    /\ SpecHandlers
    /\ \A r \in Requests :
          /\ SF_vars(AcquireLock(r))
          /\ WF_vars(\E ok \in BOOLEAN : GetSettings(r, ok))
          /\ WF_vars(\E ok \in BOOLEAN : FetchSchedule(r, ok))
          /\ WF_vars(\E ok \in BOOLEAN, iv \in RandomBytes(IV_LENGTH) :
                        CreateTask(r, ok, iv))
          /\ WF_vars(Finish(r))

---------------------------------------------------------------------------
(* The slot search over task tables that the Plazen app has written: the   *)
(* handler of src/handlers.py for the group chat, whose working window is  *)
(* 09:00 to 10:00 at the offset +2:00.                                     *)

\* the instants at which the command arrives (UTC): 08:00:00, 09:00:01,
\* 09:07:30, 09:14:30, 09:15:00 and 09:46:40 at the offset +2:00
SlotInstants == {21600, 25201, 25650, 26070, 26100, 28000}

\* a row of table tasks; duration_minutes is -1 when the column is null
SlotRow(id, user_id, scheduled_time, duration_minutes, is_completed) ==
    [id |-> id, user_id |-> user_id, title |-> Title,
     scheduled_time |-> scheduled_time, duration_minutes |-> duration_minutes,
     is_completed |-> is_completed]

\* the tables: empty; a task of 30 minutes at 09:00; one of 10 minutes at
\* 09:15; a completed one of 60 minutes at 09:00; one with no duration at
\* 09:30
SlotTables ==
    { {},
      { SlotRow(1, "U", 32400, 30, FALSE) },
      { SlotRow(1, "U", 33300, 10, FALSE) },
      { SlotRow(1, "U", 32400, 60, TRUE) },
      { SlotRow(1, "U", 34200, -1, FALSE) } }

InitSlots ==
    /\ revision = "handlers"
    /\ clock \in SlotInstants
    /\ profiles = InitProfiles
    /\ tasks \in SlotTables
    /\ req = [r \in Requests |-> Idle]
    /\ locks = [u \in Users |-> 0]
    /\ calls = <<>>
    /\ job = Asleep
    /\ sent = {}

NextSlots ==
    \/ \E r \in Requests, in \in SlotInputs : Submit(r, in)
    \/ \E r \in Requests : AcquireLock(r)
    \/ \E r \in Requests, ok \in BOOLEAN : GetSettings(r, ok)
    \/ \E r \in Requests, ok \in BOOLEAN : FetchSchedule(r, ok)
    \/ \E r \in Requests, ok \in BOOLEAN, iv \in RandomBytes(IV_LENGTH) :
          CreateTask(r, ok, iv)
    \/ \E r \in Requests : Finish(r)

SpecSlots == InitSlots /\ [][NextSlots]_vars

---------------------------------------------------------------------------
(* The reminder loop: check_and_send_reminders of src/jobs.py, called by   *)
(* the loop of main (src/main.py, lines 488-490), which sleeps 60 seconds  *)
(* after each check, and the /timezone command of src/handlers.py.         *)

\* how many checks one behaviour makes
MaxTicks == 4
\* how long the query for the users may take, in seconds
Lag == 20

\* the rows of the task table when the loop starts: tasks of the user of
\* chat g at 08:30 and 08:32, a completed one at 08:31, a task of the user
\* of chat u5 (notifications off) and one of the user of chat u1 (no offset)
ReminderRow(id, user_id, scheduled_time, is_completed) ==
    [id |-> id, user_id |-> user_id, title |-> Title,
     scheduled_time |-> scheduled_time, duration_minutes |-> 30,
     is_completed |-> is_completed]

ReminderTasks ==
    { ReminderRow(1, "U", 30600, FALSE), ReminderRow(2, "U", 30720, FALSE),
      ReminderRow(3, "U", 30660, TRUE), ReminderRow(4, "Y", 36600, FALSE),
      ReminderRow(5, "V", 30600, FALSE) }

InitReminders ==
    /\ revision = "handlers"
    /\ clock = Min(Instants)
    /\ profiles = InitProfiles
    /\ tasks = ReminderTasks
    /\ req = [r \in Requests |-> Idle]
    /\ locks = [u \in Users |-> 0]
    /\ calls = <<>>
    /\ job = Asleep
    /\ sent = {}

\* jobs.py, lines 10-18, after the sleep of main.py line 490: the loop wakes
\* and asks for the users to remind, which takes some time
StartCheck(ok, lag) ==
    /\ job.pc = "sleep"
    /\ job.n < MaxTicks
    /\ clock' = job.wake + lag
    /\ job' = [job EXCEPT !.pc = "users", !.n = job.n + 1,
                          !.users = get_users_for_reminders(ok)]
    /\ UNCHANGED <<revision, profiles, tasks, req, locks, calls, sent>>

\* the window in which a task must start to be reminded of: 30 minutes after
\* now with its seconds zeroed, one minute wide
ReminderWindow(now_local) ==
    LET now_rounded == now_local - (now_local % 60)
    IN  <<now_rounded + 60 * 30, now_rounded + 60 * 30 + 60>>

\* a check that a failure for one user ends
RemindUserOrAbort(fetched, delivered) ==
    /\ job.pc = "users"
    /\ job.users # <<>>
    /\ job' = [job EXCEPT !.users = IF fetched /\ delivered
                                    THEN Tail(job.users) ELSE <<>>]
    /\ UNCHANGED <<revision, clock, profiles, tasks, req, locks, calls, sent>>

\* jobs.py, lines 20-66: the next user of the list; a user without user id,
\* chat id or valid offset is skipped; a failed send ends the user's turn
RemindUser(fetched, delivered) ==
    /\ job.pc = "users"
    /\ job.users # <<>>
    /\ LET user == Head(job.users)
           user_timezone == parse_timezone_offset(user.timezone_offset)
           now_local == clock + user_timezone.delta
           window == ReminderWindow(now_local)
           due == get_tasks_for_reminder(user.user_id, window[1], window[2], fetched)
       IN  IF user.user_id = "" \/ ~user_timezone.valid
           THEN /\ job' = [job EXCEPT !.users = Tail(job.users)]
                /\ UNCHANGED sent
           ELSE /\ job' = [job EXCEPT !.users = Tail(job.users),
                                      !.log = Append(job.log,
                                                 [chat |-> user.telegram_id,
                                                  offset |-> user.timezone_offset,
                                                  n |-> job.n,
                                                  m |-> window[1] - 60 * 30])]
                /\ sent' = IF delivered
                           THEN sent \cup { [id |-> t.id, chat |-> user.telegram_id,
                                            n |-> job.n, at |-> clock,
                                            offset |-> user.timezone_offset] :
                                            t \in due }
                           ELSE sent
    /\ UNCHANGED <<revision, clock, profiles, tasks, req, locks, calls>>

\* main.py, line 490: the check is over and the loop sleeps 60 seconds
EndCheck ==
    /\ job.pc = "users"
    /\ job.users = <<>>
    /\ job' = [job EXCEPT !.pc = "sleep", !.wake = clock + 60]
    /\ UNCHANGED <<revision, clock, profiles, tasks, req, locks, calls, sent>>

\* the arguments users give to /timezone
OffsetArgs ==
    { <<"+", "2", ":", "0", "0">>, <<"+", "1", ":", "5", "9">>, <<"x">>,
      <<"+", "1", "5", ":", "0", "0">> }

\* a command that stores its argument unparsed
TimezoneCommandUnchecked(chat_id, offset_str, ok) ==
    /\ profiles' = update_user_timezone(chat_id, offset_str, ok)
    /\ UNCHANGED <<revision, clock, tasks, req, locks, calls, job, sent>>

\* handlers.py, lines 91-135: /timezone with an argument; an offset that
\* parses is written to the row of the chat
TimezoneCommand(chat_id, offset_str, ok) ==
    /\ profiles' = IF parse_timezone_offset(offset_str).valid
                   THEN update_user_timezone(chat_id, offset_str, ok)
                   ELSE profiles
    /\ UNCHANGED <<revision, clock, tasks, req, locks, calls, job, sent>>

NextReminders ==
    \/ \E ok \in BOOLEAN, lag \in {0, Lag} : StartCheck(ok, lag)
    \/ \E fetched \in BOOLEAN, delivered \in BOOLEAN : RemindUser(fetched, delivered)
    \/ EndCheck
    \/ \E chat_id \in {"g", "u2"}, offset_str \in OffsetArgs, ok \in BOOLEAN :
          TimezoneCommand(chat_id, offset_str, ok)

SpecReminders == InitReminders /\ [][NextReminders]_vars

---------------------------------------------------------------------------
(* Properties of task creation, under Spec. *)

\* the row with a given id
Row(id) == CHOOSE t \in tasks : t.id = id

\* the end of the busy interval of a row: 30 minutes when it has no duration
BusyEnd(t) ==
    t.scheduled_time
      + 60 * (IF t.duration_minutes \in {0, -1} THEN 30 ELSE t.duration_minutes)

Overlap(s, e, t) == s < BusyEnd(t) /\ e > t.scheduled_time

\* the invocation r of the handler of handlers.py inserts a row in this step
AutoInsert(r) ==
    /\ req[r].pc = "create"
    /\ req[r].path = "auto"
    /\ req'[r].pc = "reply"
    /\ req'[r].created # 0

\* C1: the interval of a task that auto-slot creation inserts overlaps the
\* busy interval of no existing, non-completed task of the user, wherever
\* that task starts; stated for the tasks that start before the working
\* window of the day.
AutoSlotAvoidsEarlierTasks ==
    [][\A r \in Requests :
         AutoInsert(r) =>
             \A t \in tasks :
                 (/\ t.user_id = req[r].user_id
                  /\ ~t.is_completed
                  /\ t.scheduled_time
                        < ReplaceHM(req[r].task_dt_naive, req[r].start_hour, 0))
                 => ~Overlap(req[r].task_dt_naive,
                             req[r].task_dt_naive + 60 * req[r].duration_minutes, t)]_vars

\* two invocations for one chat that are in flight together
Together(r1, r2) ==
    /\ r1 # r2
    /\ req[r1].handler = "handlers" /\ req[r2].handler = "handlers"
    /\ req[r1].chat = req[r2].chat

HasTimeClause(text) ==
    /\ LegacyMatches[text].matched
    /\ ParseClock(Strip(LegacyMatches[text].g3)) # NoClock

\* C4: a command whose time clause parses is handled by explicit-time
\* creation, and the slot search is not run for it.
TimeClauseIsExplicit ==
    \A r \in Requests :
        (/\ req[r].handler = "handlers"
         /\ req[r].pc \in {"fetch", "create"}
         /\ HasTimeClause(req[r].text))
        => req[r].path = "explicit"

\* C5: a start time s the slot search returns for the duration d satisfies
\* max(now, todayStart) <= s and s + d <= todayEnd.
SlotInsideWindow ==
    [][\A r \in Requests :
         (req[r].pc = "fetch" /\ req'[r].pc = "create") =>
             /\ Later(req[r].now_local, TodayStart(req[r])) <= req'[r].task_dt_naive
             /\ req'[r].task_dt_naive + 60 * req[r].duration_minutes
                   <= TodayEnd(req[r])]_vars

\* C5, its case: a slot was returned that is later than the start of the
\* window, because now is, and one that ends with the window
SlotReturned ==
    \E r1, r2 \in Requests :
        /\ req[r1].pc = "create" /\ req[r1].path = "auto"
        /\ req[r1].task_dt_naive = ReplaceHM(req[r1].task_dt_naive, 9, 15)
        /\ clock = 25650
        /\ req[r2].pc = "create" /\ req[r2].path = "auto"
        /\ req[r2].task_dt_naive + 60 * req[r2].duration_minutes
              = ReplaceHM(req[r2].task_dt_naive, req[r2].end_hour, 0)

\* no candidate of the request, from max(now, todayStart) on, is free of the
\* busy intervals of the user's tasks that are not completed
NoFreeCandidate(q) ==
    ValidSlots(q.now_local, TodayStart(q), TodayEnd(q), q.duration_minutes,
               ParsedTasksList({ t \in tasks : t.user_id = q.user_id
                                               /\ ~t.is_completed })) = <<>>

\* C6: when no candidate is free of conflict, auto-slot creation reports
\* that there is no free slot, and inserts no task.
NoSlotIsReported ==
    [][\A r \in Requests :
         (req[r].pc = "fetch" /\ req'[r].pc # "fetch" /\ NoFreeCandidate(req[r]))
         => req'[r].pc = "reply" /\ req'[r].message = "noslot"]_vars

\* the profile of the chat is found and has a valid offset
ProfileUsable(chat) ==
    /\ profiles[chat].found
    /\ parse_timezone_offset(profiles[chat].timezone_offset).valid

\* C7: a request of a chat whose profile is not found, or has no valid
\* offset, is answered with a setup message before the task table is read or
\* written, and no task is inserted for it.
NoTaskWithoutProfile ==
    /\ \A r \in Requests :
          (req[r].pc # "idle" /\ ~ProfileUsable(req[r].chat)) =>
              /\ req[r].pc \in {"lock", "settings", "m_settings", "reply"}
              /\ req[r].pc = "reply" =>
                    /\ req[r].created = 0
                    /\ req[r].message \in {"who", "timezone"}
                    /\ ~profiles[req[r].chat].found => req[r].message = "who"
    /\ \A t \in tasks :
          \E c \in Chats : ProfileUsable(c) /\ profiles[c].user_id = t.user_id

\* C7, its case: a chat with no profile and a chat whose profile has an
\* offset out of range were both answered, and a task was inserted for a
\* chat with a usable profile
SetupMessagesSent ==
    \E r1, r2 \in Requests :
        /\ req[r1].pc = "reply" /\ req[r1].chat = "u2" /\ req[r1].message = "who"
        /\ req[r2].pc = "reply" /\ req[r2].chat = "u3"
        /\ req[r2].message = "timezone"
        /\ tasks # {}

\* C8: every row of the task table has the encryption of the title as its
\* title: a title that is not empty is not the plaintext, and decrypts.
StoredTitlesEncrypted ==
    \A t \in tasks : t.title # <<>> => decrypt(t.title) # t.title

---------------------------------------------------------------------------
(* The title codec on its own: any sequence of encrypt and decrypt calls,  *)
(* logged in calls.  decrypt is called with what an earlier call returned  *)
(* or with a text that was never encrypted.                                *)

PlainTexts ==
    { <<>>, <<"x">>, <<"X", ":", "y">>,
      <<"a", "b", ":", "c", "d", ":", "e", "f">> }

\* utils.py, lines 14-29; an empty text returns before the nonce is drawn
EncryptCall(text, iv) ==
    /\ Len(calls) < MaxCalls
    /\ calls' = Append(calls, [op |-> "encrypt", arg |-> text,
                               iv |-> IF text = <<>> THEN <<>> ELSE iv,
                               result |-> encrypt(text, iv)])
    /\ UNCHANGED <<revision, clock, profiles, tasks, req, locks, job, sent>>

\* utils.py, lines 31-51
DecryptCall(hash_str) ==
    /\ Len(calls) < MaxCalls
    /\ calls' = Append(calls, [op |-> "decrypt", arg |-> hash_str, iv |-> <<>>,
                               result |-> decrypt(hash_str)])
    /\ UNCHANGED <<revision, clock, profiles, tasks, req, locks, job, sent>>

Returned == { calls[i].result : i \in 1..Len(calls) }

\* another hexadecimal digit
OtherHexDigit(c) == IF c = "0" THEN "1" ELSE "0"

\* what the table may hold in place of a value encrypt returned: the value
\* with one digit of its tag changed, with one digit of its ciphertext
\* changed, with a character that is no digit, with a digit missing, and
\* with a fourth field
Altered(stored) ==
    LET parts == SplitOn(stored, ":")
        join(a, b, c) == a \o <<":">> \o b \o <<":">> \o c
    IN  IF Len(parts) # 3 THEN {}
        ELSE { join(parts[1], <<OtherHexDigit(parts[2][1])>> \o Tail(parts[2]), parts[3]),
               join(parts[1], parts[2], <<OtherHexDigit(parts[3][1])>> \o Tail(parts[3])),
               join(parts[1], <<"x">> \o Tail(parts[2]), parts[3]),
               join(parts[1], parts[2], Tail(parts[3])),
               stored \o <<":", "0", "0">> }

Encrypted == { calls[i].result : i \in { k \in 1..Len(calls) : calls[k].op = "encrypt" } }

Stored == Returned \cup PlainTexts \cup UNION { Altered(h) : h \in Encrypted }

NextCodec ==
    \/ \E text \in PlainTexts, iv \in RandomBytes(IV_LENGTH) : EncryptCall(text, iv)
    \/ \E hash_str \in Stored : DecryptCall(hash_str)

SpecCodec == Init /\ [][NextCodec]_vars

---------------------------------------------------------------------------
(* The start of the process: src/config.py reads the environment, and      *)
(* src/utils.py makes the key of it.  What the process writes to standard  *)
(* output and to the log is kept in calls, before the codec calls that the *)
(* started process makes.                                                  *)

\* the key as the environment holds it: the hexadecimal digits of its bytes
KeyHex == HexOfByte(KEY)

\* what ENCRYPTION_KEY may be: the key, nothing (the variable is not set), a
\* value of another length, and a value of the length of a key that is not
\* hexadecimal
EnvironmentKeys == { KeyHex, <<>>, <<"a">>, <<"z", "z">> }

\* str(None), which print writes for a variable that is not set
NoneText == <<"N", "o", "n", "e">>

\* the message of config.py, line 30
KeyErrorText == <<"E", "N", "C", "R", "Y", "P", "T", "I", "O", "N", "_", "K", "E", "Y",
                  " ", "n", "o", "t", " ", "s", "e", "t">>

Emitted(op, text) == [op |-> op, arg |-> text, iv |-> <<>>, result |-> <<>>]

\* the process is not started yet
InitStartup ==
    /\ revision = "off"
    /\ clock = Min(Instants)
    /\ profiles = InitProfiles
    /\ tasks = {}
    /\ req = [r \in Requests |-> Idle]
    /\ locks = [u \in Users |-> 0]
    /\ calls = <<>>
    /\ job = Asleep
    /\ sent = {}

\* config.py, lines 19-31, and utils.py, line 10: the variable is read and
\* printed; a value that is missing or not as long as a key is logged and
\* ends the start, and so does one that bytes.fromhex refuses
LoadConfig(ENCRYPTION_KEY) ==
    /\ revision = "off"
    /\ LET line == Emitted("stdout", IF ENCRYPTION_KEY = <<>> THEN NoneText
                                     ELSE ENCRYPTION_KEY)
           accepted == ENCRYPTION_KEY # <<>> /\ Len(ENCRYPTION_KEY) = Len(KeyHex)
       IN  /\ calls' = IF accepted THEN <<line>>
                       ELSE <<line, Emitted("log", KeyErrorText)>>
           /\ revision' = IF accepted /\ FromHexOk(ENCRYPTION_KEY)
                          THEN "handlers" ELSE "failed"
    /\ UNCHANGED <<clock, profiles, tasks, req, locks, job, sent>>

NextStartup ==
    \/ \E ENCRYPTION_KEY \in EnvironmentKeys : LoadConfig(ENCRYPTION_KEY)
    \/ /\ revision = "handlers"
       /\ \E text \in PlainTexts, iv \in RandomBytes(IV_LENGTH) : EncryptCall(text, iv)
    \/ /\ revision = "handlers"
       /\ \E hash_str \in Stored : DecryptCall(hash_str)

SpecStartup == InitStartup /\ [][NextStartup]_vars

\* C31: the value of the encryption key is never written to standard output
\* or to the log, at the start or during an operation: nothing the process
\* emits contains the key.
KeyIsNeverEmitted ==
    \A i \in 1..Len(calls) :
        calls[i].op \in {"stdout", "log"} =>
            Occurrences(calls[i].arg, KeyHex, 1) = {}

---------------------------------------------------------------------------
(* Properties of the codec, under SpecCodec. *)

\* C9: decrypt of what encrypt returned for a non-empty plaintext is that
\* plaintext, and encrypt and decrypt return an empty input unchanged.
RoundTrip ==
    \A i \in 1..Len(calls) :
        /\ calls[i].arg = <<>> => calls[i].result = <<>>
        /\ calls[i].op = "decrypt" =>
              \A j \in 1..(i - 1) :
                  (/\ calls[j].op = "encrypt"
                   /\ calls[j].arg # <<>>
                   /\ calls[j].result = calls[i].arg)
                  => calls[i].result = calls[j].arg

\* C9, its case: a text with colons in it was encrypted to something else
\* and the result decrypted, and an empty text was encrypted
RoundTripDone ==
    \E i, j, k \in 1..Len(calls) :
        /\ calls[j].op = "encrypt"
        /\ calls[j].arg = <<"X", ":", "y">>
        /\ calls[j].result # calls[j].arg
        /\ j < i
        /\ calls[i].op = "decrypt"
        /\ calls[i].arg = calls[j].result
        /\ calls[k].op = "encrypt"
        /\ calls[k].arg = <<>>

\* C10: no two encrypt calls use the same nonce.
NonceNeverReused ==
    \A i, j \in 1..Len(calls) :
        (/\ i < j
         /\ calls[i].op = "encrypt" /\ calls[i].arg # <<>>
         /\ calls[j].op = "encrypt" /\ calls[j].arg # <<>>)
        => SplitOn(calls[i].result, ":")[1] # SplitOn(calls[j].result, ":")[1]

\* what encrypt returns for the plaintexts and nonces of the model
EncryptOutputs ==
    { encrypt(text, iv) : text \in PlainTexts \ {<<>>}, iv \in RandomBytes(IV_LENGTH) }

\* C11: for a value of three fields that does not authenticate (an altered
\* tag or ciphertext, malformed hex), decrypt returns the stored string
\* unchanged, and no plaintext.
TamperedIsReturnedUnchanged ==
    \A i \in 1..Len(calls) :
        (/\ calls[i].op = "decrypt"
         /\ Len(SplitOn(calls[i].arg, ":")) = 3
         /\ calls[i].arg \notin EncryptOutputs)
        => calls[i].result = calls[i].arg

\* C11, its case: a value with one digit of its tag changed, one with a
\* character that is no hexadecimal digit and one with a digit missing were
\* given to decrypt
TamperedDecrypted ==
    \E i, j, k \in 1..Len(calls) :
        /\ calls[i].op = "encrypt" /\ calls[i].arg = <<"X", ":", "y">>
        /\ calls[j].op = "decrypt" /\ calls[j].arg # calls[i].result
        /\ LET a == SplitOn(calls[i].result, ":")
               b == SplitOn(calls[j].arg, ":")
           IN  /\ Len(b) = 3
               /\ b[1] = a[1] /\ b[3] = a[3]
               /\ Tail(b[2]) = Tail(a[2]) /\ b[2][1] = OtherHexDigit(a[2][1])
        /\ calls[k].op = "decrypt"
        /\ Len(SplitOn(calls[k].arg, ":")) = 3
        /\ ~FromHexOk(SplitOn(calls[k].arg, ":")[3])

\* C12: decrypt returns its input unchanged when the input does not split on
\* ":" into exactly three fields.
LegacyIsReturnedUnchanged ==
    \A i \in 1..Len(calls) :
        (calls[i].op = "decrypt" /\ Len(SplitOn(calls[i].arg, ":")) # 3)
        => calls[i].result = calls[i].arg

\* C12, its case: a title without colons, and an encrypted value followed
\* by a fourth field, were given to decrypt
LegacyDecrypted ==
    \E i, j \in 1..Len(calls) :
        /\ calls[i].op = "decrypt" /\ calls[i].arg = <<"x">>
        /\ calls[j].op = "decrypt" /\ Len(SplitOn(calls[j].arg, ":")) = 4
        /\ SubSeq(calls[j].arg, 1, Len(calls[j].arg) - 3) \in EncryptOutputs

---------------------------------------------------------------------------
(* The parsers of src/utils.py on their own: calls holds the call made     *)
(* last, with its arguments and its result.                                *)

OffsetStrings ==
    { <<>>, <<"+", "2">>, <<"-", "7">>, <<"+", "1", "4", ":", "0", "0">>,
      <<"+", "1", "5", ":", "0", "0">>, <<"+", "5", ":", "3", "0">>,
      <<"+", "0", "5", "3", "0">>, <<"+", "5", "3", "0">>, <<"+", "1", "2", "3">>,
      <<"2">>, <<"+", "2", ":">>, <<"+", "5", ":", "3">>,
      <<"+", "1", "4", ":", "6", "0">>, <<"+", "2", "\n">>, <<"+">>, <<"x">>,
      <<"+", "1", ":", "2", "3", "4">>, <<" ", "+", "2">>, <<"-", "0", "0">>,
      <<"+", "0", "9", ":", "0", "0">>, <<"+", "1", "4", "5", "9">>,
      <<"-", "1", "5">>, <<"+", "2", " ">>, <<"+", "1", "0", "0", "0", "0">>,
      <<"-", "0", "7", ":", "0", "0">>, <<"-", "0", "7", "0", "0">> }

DurationStrings ==
    { Dur30, Dur2h, <<"1", ".", "5", " ", "h", "o", "u", "r", "s">>,
      <<"2", ".", "7", " ", "m">>, <<"1", ".", "5", " ", "m", "i", "n">>,
      <<"0", ".", "5", " ", "m">>, <<"0", " ", "m", "i", "n">>, <<"4", "5">>,
      <<"x">>, <<"9", "0", " ", "m", " ", "1", " ", "h">>,
      <<"1", ".", "2", ".", "3", " ", "h">>, <<"1", " ", "h", "r">>, <<"2", "H">>,
      <<"4", "5", " ", "m", "i", "n", "u", "t", "e", "s">>, <<"0">>,
      <<".", "5", "h">>, <<"1", ".", "0", "1", " ", "h">>, <<>>,
      <<"1", ".", "5">>, <<"1", "0", "m">>, <<"2", ".", "4", " ", "m">>,
      <<" ", "3", "0", " ">>, <<".">>, <<"3", " ", "x">> }

TimeStrings ==
    { At0830, At2599, <<"8", ":", "3", "0">>, <<"1", "7", ":", "3", "0">>,
      <<"5", ":", "3", "0", "P", "M">>, <<"5", "p", "m">>, <<"1", "2", "A", "M">>,
      <<"1", "2", ":", "0", "0", "p", "m">>, <<"0", "0", ":", "0", "0">>,
      <<"2", "3", ":", "5", "9">>, <<"2", "4", ":", "0", "0">>,
      <<"5", ":", "6", "0", "p", "m">>, <<"1", "3", "P", "M">>, <<>>,
      <<" ", "9", ":", "0", "5", " ">>, <<"x">> }

\* the local times at which the time parser reads the clock: midnight,
\* 08:29:59, 08:30:00, 08:30:01, 17:30:00 and 23:59:59 of day 0
Nows == {0, 30599, 30600, 30601, 63000, 86399}

\* utils.py, lines 102-136
ParseTimeCall(time_str, now_local) ==
    /\ calls' = << [op |-> "time", arg |-> time_str, now_local |-> now_local,
                    result |-> parse_local_time_to_naive_datetime(time_str, now_local)] >>
    /\ UNCHANGED <<revision, clock, profiles, tasks, req, locks, job, sent>>

\* utils.py, lines 54-77
ParseOffsetCall(offset_str) ==
    /\ calls' = << [op |-> "offset", arg |-> offset_str,
                    result |-> parse_timezone_offset(offset_str)] >>
    /\ UNCHANGED <<revision, clock, profiles, tasks, req, locks, job, sent>>

\* utils.py, lines 79-100
ParseDurationCall(duration_str) ==
    /\ calls' = << [op |-> "duration", arg |-> duration_str,
                    result |-> parse_duration_to_minutes(duration_str)] >>
    /\ UNCHANGED <<revision, clock, profiles, tasks, req, locks, job, sent>>

NextParse ==
    \/ \E time_str \in TimeStrings, now_local \in Nows : ParseTimeCall(time_str, now_local)
    \/ \E offset_str \in OffsetStrings : ParseOffsetCall(offset_str)
    \/ \E duration_str \in DurationStrings : ParseDurationCall(duration_str)

SpecParse == Init /\ [][NextParse]_vars

---------------------------------------------------------------------------
(* Properties of the parsers, under SpecParse. *)

\* C13: the resolved time r is the parsed clock time hh:mm:00 of today when
\* that is not before now, and 24 hours later otherwise: now <= r < now + 24h,
\* r has zero seconds and the clock time hh:mm.
ResolvedWithinADay ==
    \A i \in 1..Len(calls) :
        (calls[i].op = "time" /\ calls[i].result # -1) =>
            LET r == calls[i].result
                now == calls[i].now_local
                today == ReplaceHM(now, ParseClock(calls[i].arg).hour,
                                   ParseClock(calls[i].arg).minute)
            IN  /\ now <= r /\ r < now + 86400
                /\ r % 60 = 0
                /\ r = IF today < now THEN today + 86400 ELSE today

\* C13, its case: a clock time one second before now was resolved to
\* tomorrow
ResolvedToTomorrow ==
    \E i \in 1..Len(calls) :
        /\ calls[i].op = "time"
        /\ calls[i].arg = At0830
        /\ calls[i].now_local = 30601
        /\ calls[i].result = 30600 + 86400

\* a sign, one or two hour digits and, optionally, two minute digits with
\* or without a colon before them; hours at most 14, minutes at most 59
WellFormedOffset(offset_str) ==
    /\ Len(offset_str) >= 2
    /\ offset_str[1] \in {"+", "-"}
    /\ \E k \in {1, 2} :
          /\ Len(offset_str) >= 1 + k
          /\ LET hours == SubSeq(offset_str, 2, 1 + k)
                 rest == SubSeq(offset_str, 2 + k, Len(offset_str))
                 minutes == IF rest # <<>> /\ rest[1] = ":" THEN Tail(rest) ELSE rest
             IN  /\ AllDigits(hours) /\ IntOf(hours) <= 14
                 /\ \/ rest = <<>>
                    \/ Len(minutes) = 2 /\ AllDigits(minutes) /\ IntOf(minutes) <= 59

\* C17: parse_timezone_offset returns a valid offset exactly for the strings
\* of that form, and the invalid result for every other input.
OffsetValidIffWellFormed ==
    \A i \in 1..Len(calls) :
        calls[i].op = "offset" =>
            (calls[i].result.valid <=> WellFormedOffset(calls[i].arg))

\* what an offset string denotes, in minutes: its digits are the hours when
\* there are one or two, else the last two are the minutes and those before
\* them the hours; "-" makes it negative
DenotedMinutes(offset_str) ==
    LET digits == SelectSeq(offset_str, IsDigit)
        n == Len(digits)
        hours == IF n <= 2 THEN IntOf(digits) ELSE IntOf(SubSeq(digits, 1, n - 2))
        minutes == IF n <= 2 THEN 0 ELSE IntOf(SubSeq(digits, n - 1, n))
    IN  (IF offset_str[1] = "-" THEN -1 ELSE 1) * (hours * 60 + minutes)

\* C22: for every valid offset string the delta is sign x (hours x 60 +
\* minutes) minutes, so that two strings that denote the same sign, hours and
\* minutes yield equal deltas.
DeltaIsSignedMinutes ==
    \A i \in 1..Len(calls) :
        (calls[i].op = "offset" /\ calls[i].result.valid) =>
            /\ calls[i].result.delta = 60 * DenotedMinutes(calls[i].arg)
            /\ \A other \in OffsetStrings :
                  (/\ parse_timezone_offset(other).valid
                   /\ DenotedMinutes(other) = DenotedMinutes(calls[i].arg))
                  => parse_timezone_offset(other).delta = calls[i].result.delta

\* C22, its case: "-07:00" was parsed, which denotes what "-7" does
NegativeOffsetParsed ==
    /\ calls # <<>>
    /\ calls[1].op = "offset"
    /\ calls[1].arg = <<"-", "0", "7", ":", "0", "0">>
    /\ calls[1].result = parse_timezone_offset(<<"-", "7">>)
    /\ calls[1].result.valid
    /\ calls[1].result.delta = -(7 * 3600)

\* round(n * factor) of the decimal number num, a half to the even side
RoundedProduct(num, factor) ==
    LET parts == SplitOn(num, ".")
        frac == IF Len(parts) = 2 THEN parts[2] ELSE <<>>
        q == Pow10(Len(frac))
        p == factor * (IntOf(parts[1]) * q + IntOf(frac))
        down == p \div q
    IN  IF 2 * (p % q) > q THEN down + 1
        ELSE IF 2 * (p % q) = q /\ down % 2 = 1 THEN down + 1
        ELSE down

\* the minutes the rules give with rounding: hour unit first, then minute
\* unit, then the bare number
RoundedDuration(duration_str) ==
    LET s == Strip(Lower(duration_str))
        hour == UnitMatches(s, HourUnits)
        minute == UnitMatches(s, MinuteUnits)
        NumberAt(i) == SubSeq(s, i, RunEnd(s, i))
    IN  IF hour # {} THEN RoundedProduct(NumberAt(Min(hour)), 60)
        ELSE IF minute # {} THEN RoundedProduct(NumberAt(Min(minute)), 1)
        ELSE RoundedProduct(s, 1)

\* C18: the parsed duration is round(n x 60) minutes for a number n with an
\* hour unit, and round(n) minutes for one with a minute unit or bare.
DurationIsRounded ==
    \A i \in 1..Len(calls) :
        (calls[i].op = "duration" /\ calls[i].result # -1)
        => calls[i].result = RoundedDuration(calls[i].arg)

\* C19: every duration produced by the duration parser and used for task
\* creation is a positive integer: no task with a duration of 0 minutes or
\* less is ever inserted.
InsertedDurationsArePositive ==
    \A t \in tasks : t.duration_minutes > 0

\* the slots the search of the request finds when the listing of the
\* existing tasks succeeds
SlotsWithListing(q) ==
    ValidSlots(q.now_local, TodayStart(q), TodayEnd(q), q.duration_minutes,
               ParsedTasksList(fetch_schedule_for_user_in_range(
                                   q.user_id, TodayStart(q), TodayEnd(q), TRUE)))

\* C21: a failed store call during task creation aborts the operation and is
\* reported: when listing the existing tasks fails no slot is chosen and no
\* task is inserted, so that every slot chosen is one the search finds among
\* the tasks listed; and when the insert fails a failure message is sent and
\* no confirmation.
FailedStoreCallAborts ==
    [][\A r \in Requests :
          /\ (req[r].pc = "fetch" /\ req'[r].pc = "create")
             => \E i \in 1..Len(SlotsWithListing(req[r])) :
                   req'[r].task_dt_naive = SlotsWithListing(req[r])[i]
          /\ (req[r].pc = "create" /\ req'[r].pc = "reply" /\ tasks' = tasks)
             => req'[r].message = "savefailed"]_vars

\* the invocation r may insert: its chat is linked and has a valid offset,
\* the command has a title and a duration, and a start time was resolved
MayInsert(q) ==
    /\ profiles[q.chat].found /\ profiles[q.chat].user_id # ""
    /\ WellFormedOffset(profiles[q.chat].timezone_offset)
    /\ q.title # <<>>
    /\ q.duration_minutes # -1
    /\ \/ q.path = "explicit" /\ q.task_dt_naive # -1
       \/ /\ q.path = "auto"
          /\ profiles[q.chat].timetable_start # -1
          /\ profiles[q.chat].timetable_end # -1
          /\ q.task_dt_naive # -1

\* C27: one command causes at most one insert, and only if the profile is
\* linked, the offset valid, the title not empty, the duration parsed and a
\* start time resolved; every validation, profile-state or no-slot outcome
\* leaves the task store unchanged, and "Task Scheduled" is sent only after
\* the store confirmed the insert.
InsertOnlyWhenValidated ==
    [][/\ tasks' # tasks =>
             \E r \in Requests :
                /\ req[r].pc = "create" /\ req'[r].pc = "reply"
                /\ MayInsert(req[r])
                /\ \E row \in tasks' \ tasks :
                      /\ tasks' = tasks \cup {row}
                      /\ req'[r].created = row.id
                      /\ req'[r].message = "scheduled"
       /\ \A r \in Requests :
             (req[r].pc # "reply" /\ req'[r].pc = "reply") =>
                IF req'[r].message = "scheduled"
                THEN /\ req[r].pc = "create"
                     /\ \E row \in tasks' \ tasks : row.id = req'[r].created
                ELSE tasks' = tasks]_vars

\* C27, its case: a command was confirmed after its insert while a command
\* of a chat with no working hours was refused, and the table holds the one
\* row
OneInsertOneRefusal ==
    \E r1, r2 \in Requests :
        /\ req[r1].pc = "reply" /\ req[r1].message = "scheduled"
        /\ req[r1].created # 0
        /\ req[r2].pc = "reply" /\ req[r2].message = "hours"
        /\ Cardinality(tasks) = 1

\* the command grammar: "i want to", then a title, " for " and a duration
FitsGrammar(text) ==
    /\ OccursAt(text, IWantTo, 1)
    /\ \E i \in (Len(IWantTo) + 1)..Len(text) : OccursAt(text, SepFor, i)

\* C20: a text message that does not match the command grammar is silently
\* ignored: the handler returns with no reply sent, no call to the profile
\* store or the task store made, and no task inserted.
NonCommandIsIgnored ==
    [][\A r \in Requests :
          (/\ req[r].pc = "lock"
           /\ ~FitsGrammar(req[r].text)
           /\ req'[r] # req[r])
          => (req'[r] = Idle /\ tasks' = tasks /\ profiles' = profiles)]_vars

\* C20, its case: the text "hi" of the group chat was ignored; the handler
\* returned and the task table is as it was
NonCommandWasIgnored ==
    /\ calls = << [op |-> "ignoring", chat |-> "g"] >>
    /\ \A r \in Requests : req[r] = Idle
    /\ tasks = {}

\* C28: the creation lock is released on every exit path of the handler: no
\* invocation that has returned or still waits holds a lock; and, the external
\* calls returning, every request acquires the lock and completes: none waits
\* for ever.
EveryRequestCompletes ==
    /\ [](\A u \in Users :
             locks[u] # 0 => /\ req[locks[u]].user = u
                             /\ req[locks[u]].pc \notin {"idle", "lock"})
    /\ \A r \in Requests : (req[r].pc = "lock") ~> (req[r].pc = "idle")

\* C28, its case: a request waits for the lock that another request of the
\* same sender holds
RequestWaitsForLock ==
    \E r1, r2 \in Requests :
        /\ r1 # r2
        /\ req[r2].pc = "lock"
        /\ locks[req[r2].user] = r1
        /\ req[r1].pc \in {"settings", "fetch", "create", "reply"}

---------------------------------------------------------------------------
(* Properties of the slot search, under SpecSlots. *)

Elements(seq) == { seq[i] : i \in 1..Len(seq) }

\* the least quarter of an hour at or after t
Snapped(t) == CHOOSE s \in t..(t + 899) : s % 900 = 0

\* the busy intervals the handler of the request has after its listing
ListedBusy(q, ok) ==
    ParsedTasksList(fetch_schedule_for_user_in_range(
                        q.user_id, TodayStart(q), TodayEnd(q), ok))

\* the candidates s at a stride of 15 minutes from the snapped start of the
\* search with s < todayEnd, s + duration <= todayEnd and no overlap with
\* a busy interval
Candidates(q, busy) ==
    { s \in { Snapped(Later(q.now_local, TodayStart(q))) + 900 * k : k \in 0..96 } :
        /\ s < TodayEnd(q)
        /\ s + 60 * q.duration_minutes <= TodayEnd(q)
        /\ \A b \in busy : ~(s < b[2] /\ s + 60 * q.duration_minutes > b[1]) }

\* C23: the start times the slot search can return are the candidates at a
\* 15-minute stride from the snapped start with s < todayEnd, s + duration
\* <= todayEnd and no overlap with a busy interval: the search collects all
\* of them, stopping at the first that ends after todayEnd loses none, and
\* the slot chosen is one of them.
SearchReturnsTheCandidates ==
    [][\A r \in Requests :
          req[r].pc = "fetch" =>
             /\ \A ok \in BOOLEAN :
                   Elements(ValidSlots(req[r].now_local, TodayStart(req[r]),
                                       TodayEnd(req[r]), req[r].duration_minutes,
                                       ListedBusy(req[r], ok)))
                      = Candidates(req[r], ListedBusy(req[r], ok))
             /\ req'[r].pc = "create" =>
                   \E ok \in BOOLEAN :
                      req'[r].task_dt_naive \in Candidates(req[r], ListedBusy(req[r], ok))]_vars

\* C23, its case: for a task of 45 minutes and an empty table 09:15 was
\* chosen, which is not the earliest candidate and is the last one that ends
\* by 10:00
LaterCandidateChosen ==
    \E r \in Requests :
        /\ req[r].pc = "create" /\ req[r].path = "auto"
        /\ req[r].duration_minutes = 45
        /\ tasks = {}
        /\ clock = 21600
        /\ req[r].task_dt_naive = 33300

\* C24: the first candidate is the least 15-minute boundary at or after
\* max(now, todayStart), seconds counted, and every candidate, hence every
\* slot returned, is on a 15-minute boundary with its seconds zero.
CandidatesOnQuarterHours ==
    [][\A r \in Requests :
          req[r].pc = "fetch" =>
             /\ FirstSlot(Later(req[r].now_local, TodayStart(req[r])))
                   = Snapped(Later(req[r].now_local, TodayStart(req[r])))
             /\ \A ok \in BOOLEAN :
                   \A s \in Elements(ValidSlots(req[r].now_local, TodayStart(req[r]),
                                                TodayEnd(req[r]), req[r].duration_minutes,
                                                ListedBusy(req[r], ok))) :
                      s % 900 = 0
             /\ req'[r].pc = "create" =>
                   /\ req'[r].task_dt_naive % 900 = 0
                   /\ req'[r].task_dt_naive
                         >= Later(req[r].now_local, TodayStart(req[r]))]_vars

\* C24, its case: the command came at 09:14:30 and 09:15 was chosen; at
\* 09:15:00 the start of the search is on a boundary and is kept
SecondsCounted ==
    \E r \in Requests :
        /\ req[r].pc = "create" /\ req[r].path = "auto"
        /\ clock \in {26070, 26100}
        /\ req[r].task_dt_naive = 33300

\* the user's tasks that start in the working window of the request
TasksInWindow(q) ==
    { t \in tasks : /\ t.user_id = q.user_id
                    /\ t.scheduled_time >= TodayStart(q)
                    /\ t.scheduled_time < TodayEnd(q) }

FlooredDuration(t) == IF t.duration_minutes < 30 THEN 30 ELSE t.duration_minutes

\* C25: each existing task contributes the busy interval [taskStart,
\* taskStart + max(taskDuration, 30) minutes), no duration counting as 30: a
\* slot the search finds among the tasks listed overlaps no such interval;
\* the floor is not applied to the duration stored for the new task.
BusyIntervalsHaveFloor ==
    [][\A r \in Requests :
          /\ (/\ req[r].pc = "fetch" /\ req'[r].pc = "create"
              /\ req'[r].task_dt_naive \in Elements(SlotsWithListing(req[r])))
             => \A t \in TasksInWindow(req[r]) :
                   ~t.is_completed =>
                      ~(/\ req'[r].task_dt_naive
                              < t.scheduled_time + 60 * FlooredDuration(t)
                        /\ req'[r].task_dt_naive + 60 * req[r].duration_minutes
                              > t.scheduled_time)
          /\ AutoInsert(r) =>
                \E t \in tasks' \ tasks : t.duration_minutes = req[r].duration_minutes]_vars

\* C26: only the existing tasks that are not completed contribute busy
\* intervals: a completed task in the working window never causes a candidate
\* to be rejected, so no free slot is reported only when no candidate is free
\* of the tasks that are not completed.
CompletedTasksAreNotBusy ==
    [][\A r \in Requests :
          (/\ req[r].pc = "fetch"
           /\ req'[r].pc = "reply" /\ req'[r].message = "noslot")
          => Candidates(req[r],
                        ParsedTasksList({ t \in TasksInWindow(req[r]) :
                                             ~t.is_completed })) = {}]_vars

---------------------------------------------------------------------------
(* Properties of the reminder loop, under SpecReminders. *)

\* local now of a reminder, its seconds zeroed
RoundedNow(s) ==
    LET now_local == s.at + parse_timezone_offset(s.offset).delta
    IN  now_local - (now_local % 60)

\* C14: a reminder is sent for a task only if the user has notifications
\* on, a linked chat and a valid offset, the task is not completed, and its
\* start time t satisfies m + 30min <= t < m + 31min, m being local now with
\* its seconds zeroed.
ReminderOnlyWhenDue ==
    \A s \in sent :
        /\ Notifications[s.chat]
        /\ profiles[s.chat].found
        /\ profiles[s.chat].user_id = Row(s.id).user_id
        /\ parse_timezone_offset(s.offset).valid
        /\ ~Row(s.id).is_completed
        /\ RoundedNow(s) + 60 * 30 <= Row(s.id).scheduled_time
        /\ Row(s.id).scheduled_time < RoundedNow(s) + 60 * 31

\* C14, its case: some seconds after 08:00 a reminder was sent for the task that starts
\* at 08:30:00, and the check of 08:01 found the completed task of 08:31 and
\* sent nothing for it
ReminderWasSent ==
    /\ \E s \in sent : s.id = 1 /\ s.at = Min(Instants) + Lag
    /\ \E k \in 1..Len(job.log) : job.log[k].chat = "g" /\ job.log[k].m = 28860
    /\ job.pc = "sleep"
    /\ \A s \in sent : s.id # 3

\* C15: the cadence of the checks never exceeds the width of the window, so
\* no reminder is missed between checks: no task, not completed, of a
\* notified user starts after the window of one check and before the window
\* of the next one.
WindowsLeaveNoGap ==
    \A t \in tasks : \A i, j \in 1..Len(job.log) :
        (/\ job.log[j].n = job.log[i].n + 1
         /\ job.log[i].chat = job.log[j].chat
         /\ job.log[i].offset = job.log[j].offset
         /\ profiles[job.log[i].chat].user_id = t.user_id
         /\ ~t.is_completed)
        => ~(/\ job.log[i].m + 60 * 31 <= t.scheduled_time
             /\ t.scheduled_time < job.log[j].m + 60 * 30)

\* C16: each task receives at most one reminder: no two checks both send a
\* reminder for one task.
AtMostOneReminder ==
    \A s1, s2 \in sent : s1.id = s2.id => s1.n = s2.n

\* C29: in a check a failure while one user is processed (invalid offset,
\* failed read of the store, failed send) does not keep the remaining users
\* from being evaluated and reminded in the same check, and no failure in a
\* check ends the loop: after each user the rest of the list is still to be
\* evaluated, a user with a valid offset is evaluated whatever happened
\* before, and after the last user the loop sleeps for 60 seconds.
FailureDoesNotEndTheCheck ==
    [][(job.pc = "users" /\ job' # job) =>
          IF job.users # <<>>
          THEN /\ job'.pc = "users" /\ job'.n = job.n
               /\ job'.users = Tail(job.users)
               /\ (Head(job.users).user_id # ""
                   /\ WellFormedOffset(Head(job.users).timezone_offset))
                  => /\ Len(job'.log) = Len(job.log) + 1
                     /\ job'.log[Len(job'.log)].chat = Head(job.users).telegram_id
                     /\ job'.log[Len(job'.log)].n = job.n
          ELSE job'.pc = "sleep" /\ job'.wake = clock + 60]_vars

\* C29, its case: in one check the user of the group chat was evaluated at
\* 08:00 and, through a failure, got no reminder of the task of 08:30; the
\* user with no offset was skipped; and the user of chat u5 was reminded
LaterUserReminded ==
    \E n \in 1..MaxTicks :
        /\ \E k \in 1..Len(job.log) :
              /\ job.log[k].chat = "g" /\ job.log[k].n = n
              /\ job.log[k].m = 28800
              /\ job.log[k].offset = <<"+", "2", ":", "0", "0">>
        /\ ~\E s \in sent : s.id = 1 /\ s.n = n
        /\ \E s \in sent : s.id = 4 /\ s.n = n /\ s.chat = "u5"
        /\ job.pc = "sleep"

\* C30: the timezone-set operation writes an offset string to the profile
\* only if it parses as a valid offset, so that an offset stored through it
\* is parseable and an invalid string leaves the profile as it is; only the
\* offset field of the profile of that chat changes, and no task row.
OnlyValidOffsetsStored ==
    [][profiles' # profiles =>
          /\ \E chat_id \in Chats :
                /\ profiles[chat_id].found
                /\ WellFormedOffset(profiles'[chat_id].timezone_offset)
                /\ profiles' = [profiles EXCEPT ![chat_id].timezone_offset =
                                                  profiles'[chat_id].timezone_offset]
          /\ tasks' = tasks]_vars

\* C30, its case: "+1:59" was stored for the group chat; the other fields,
\* the other profiles and the tasks are as they were
OffsetWasStored ==
    /\ profiles["g"].timezone_offset = <<"+", "1", ":", "5", "9">>
    /\ profiles = [InitProfiles EXCEPT !["g"].timezone_offset =
                                          <<"+", "1", ":", "5", "9">>]
    /\ tasks = ReminderTasks

====
